---- MODULE Spec2Model ----
(***************************************************************************)
(* Model of the reputation-based scorer:                                   *)
(*   ReputationManager    (src/ReputationManager.py)                       *)
(*   IpGeoLocationTracker (src/IPGeoLocationTracker.py)                    *)
(*   PointRule, PointRuleBuilder (src/PointRuleBuilder.py)                 *)
(* Python objects that are shared by reference (PointRule instances, the   *)
(* class-level BLACKLIST) are modelled by a heap / a single shared         *)
(* variable, so aliasing is visible in the model.                          *)
(***************************************************************************)
EXTENDS Integers, Sequences, FiniteSets, TLC

VARIABLES
    BLACKLIST,   \* ReputationManager.BLACKLIST: the class-level dict reason -> list of IPs
    scorers,     \* the ReputationManager instances constructed so far
    lastScore,   \* the last ReputationManager call and what it gave back
    heap,        \* the PointRule objects, by identity
    builders,    \* the PointRuleBuilder instances
    file,        \* the content of the rules JSON file
    last         \* the last PointRuleBuilder call and what it gave back

vars == <<BLACKLIST, scorers, lastScore, heap, builders, file, last>>
scorerVars == <<BLACKLIST, scorers, lastScore>>
builderVars == <<heap, builders, file, last>>

\* Python's None
None == "<None>"

----------------------------------------------------------------------------
(* Bounds of the model *)

MaxBlacklist == 2
MaxHeap == 2
MaxRefs == 6
MaxPending == 2
MaxPoints == 4

----------------------------------------------------------------------------
(* Small helpers *)

RECURSIVE SumSeq(_)
SumSeq(s) == IF s = <<>> THEN 0 ELSE Head(s) + SumSeq(Tail(s))

Range(s) == {s[i] : i \in DOMAIN s}

----------------------------------------------------------------------------
(* IpGeoLocationTracker *)

\* the attributes of a tracker object that the model keeps
TrackerFields == {"country", "region", "city", "isp", "org"}

\* IpGeoLocationTracker.__init__ before its call of track_ip: every field None
NewTracker == [f \in TrackerFields |-> None]

\* What http://ipwho.is/<ip> can answer: the request raises, the body is a
\* falsy JSON value, or it is a JSON object (keys it lacks read as None).
Responses ==
    { [kind |-> "raise", data |-> NewTracker],
      [kind |-> "falsy", data |-> NewTracker],
      [kind |-> "object",
       data |-> [NewTracker EXCEPT !["country"] = "US", !["isp"] = "ISP1", !["city"] = "X"]],
      [kind |-> "object", data |-> [NewTracker EXCEPT !["country"] = "UK"]] }

\* track_ip: the fields are overwritten only when ip_data is truthy
track_ip(tracker, resp) ==
    IF resp.kind = "object" THEN resp.data ELSE tracker

----------------------------------------------------------------------------
(* ReputationManager *)

\* the names of the ReputationManager objects of the model
Scorers == {"m1", "m2"}
IPs == {"1.2.3.4", "9.9.9.9"}
Reasons == {"Manual", "Spam"}

\* a dict is a function on its keys
EmptyDict == [k \in {} |-> 0]

BLACKLIST0 ==
    [r \in {"Manual", "Suspicious Activity"} |->
        IF r = "Manual" THEN <<"1.2.3.4">> ELSE <<>>]

\* a rule table keeps the insertion order of its attributes: a sequence of
\* [attr, table] with table a dict value -> points
DEFAULT_POINT_RULES ==
    << [attr |-> "country", table |-> [v \in {"US", "UK"} |-> IF v = "US" THEN 10 ELSE 20]],
       [attr |-> "region", table |-> [v \in {"NY", "CA"} |-> IF v = "NY" THEN 5 ELSE 8]],
       [attr |-> "city",
        table |-> [v \in {"New York City", "Los Angeles"} |->
                      IF v = "New York City" THEN 5 ELSE 8]],
       [attr |-> "isp", table |-> [v \in {"ISP1", "ISP2"} |-> IF v = "ISP1" THEN 10 ELSE 15]],
       [attr |-> "org",
        table |-> [v \in {"Organization1", "Organization2"} |->
                      IF v = "Organization1" THEN 10 ELSE 15]] >>

\* the rule tables a caller passes as point_rules
ExampleRules ==
    << [attr |-> "country", table |-> [v \in {"US"} |-> 10]],
       [attr |-> "isp", table |-> [v \in {"ISP1"} |-> 15]] >>

UnknownAttrRules ==
    << [attr |-> "country", table |-> [v \in {"US"} |-> 10]],
       [attr |-> "bogus", table |-> [v \in {"x"} |-> 1]] >>

\* what a caller passes as point_rules: nothing (None) or a table
PointRuleArgs ==
    { [given |-> FALSE, val |-> <<>>],
      [given |-> TRUE, val |-> ExampleRules],
      [given |-> TRUE, val |-> UnknownAttrRules] }

\* what a caller passes as blacklist: nothing (None) or a dict reason -> IPs
BlacklistArgs ==
    { [given |-> FALSE, val |-> EmptyDict],
      [given |-> TRUE, val |-> EmptyDict],
      [given |-> TRUE, val |-> [r \in {"Manual"} |-> <<"9.9.9.9">>]] }

\* self.blacklist.  BLACKLIST.copy() is a shallow copy: the new dict has the
\* keys BLACKLIST has at that moment and shares its list objects ("aliased");
\* a dict the caller passed is kept as it is ("own").
\* "added" is history: the IPs added through this instance's add_to_blacklist.
Init__(bl, pr) ==
    [ blacklist |-> IF bl.given
                    THEN [aliased |-> {}, own |-> bl.val]
                    ELSE [aliased |-> DOMAIN BLACKLIST, own |-> EmptyDict],
      point_rules |-> IF pr.given THEN pr.val ELSE DEFAULT_POINT_RULES,
      added |-> {} ]

\* the IPs readable through self.blacklist
SelfBlacklistIPs(s) ==
    UNION { Range(BLACKLIST[r]) : r \in scorers[s].blacklist.aliased }
    \cup UNION { Range(scorers[s].blacklist.own[r]) : r \in DOMAIN scorers[s].blacklist.own }

\* check_in_blacklist: reads self.BLACKLIST, the class attribute
check_in_blacklist(s, ip) ==
    \E reason \in DOMAIN BLACKLIST : ip \in Range(BLACKLIST[reason])

\* the loop of get_reputation over self.point_rules.items(), from entry i on:
\* getattr raises AttributeError for a name the tracker has no attribute for
RECURSIVE ScoreLoop(_, _, _, _)
ScoreLoop(rules, tracker, i, acc) ==
    IF i > Len(rules) THEN [raised |-> "", value |-> acc]
    ELSE IF rules[i].attr \notin TrackerFields
         THEN [raised |-> "AttributeError", value |-> 0]
         ELSE LET attr_value == tracker[rules[i].attr]
                  attr_rules == rules[i].table
              IN  IF attr_value \in DOMAIN attr_rules
                  THEN ScoreLoop(rules, tracker, i + 1, acc + attr_rules[attr_value])
                  ELSE ScoreLoop(rules, tracker, i + 1, acc)

\* get_reputation(ip) on scorer s; r1 answers the request the tracker's
\* constructor makes, r2 the request of the explicit track_ip() call
get_reputation(s, ip, r1, r2) ==
    IF check_in_blacklist(s, ip)
    THEN [raised |-> "", value |-> 0, calls |-> 0, bag |-> NewTracker]
    ELSE IF r1.kind = "raise"
    THEN [raised |-> "RequestError", value |-> 0, calls |-> 1, bag |-> NewTracker]
    ELSE IF r2.kind = "raise"
    THEN [raised |-> "RequestError", value |-> 0, calls |-> 2, bag |-> NewTracker]
    ELSE LET tracker == track_ip(track_ip(NewTracker, r1), r2)
             res == ScoreLoop(scorers[s].point_rules, tracker, 1, 0)
         IN  [raised |-> res.raised, value |-> res.value, calls |-> 2, bag |-> tracker]

NoCall ==
    [op |-> "none", scorer |-> "", ip |-> "", raised |-> "", value |-> 0,
     calls |-> 0, bag |-> NewTracker, lookup |-> FALSE, wasListed |-> FALSE]

\* ReputationManager(blacklist, point_rules)
Construct ==
    /\ \E s \in Scorers \ DOMAIN scorers, bl \in BlacklistArgs, pr \in PointRuleArgs :
          /\ scorers' = [x \in DOMAIN scorers \cup {s} |->
                            IF x = s THEN Init__(bl, pr) ELSE scorers[x]]
          /\ lastScore' = [NoCall EXCEPT !.op = "__init__", !.scorer = s]
    /\ UNCHANGED <<BLACKLIST, builderVars>>

\* s.get_reputation(ip)
GetReputation ==
    /\ \E s \in DOMAIN scorers, ip \in IPs, r1 \in Responses, r2 \in Responses :
          LET res == get_reputation(s, ip, r1, r2)
          IN  lastScore' =
                 [op |-> "get_reputation", scorer |-> s, ip |-> ip,
                  raised |-> res.raised, value |-> res.value, calls |-> res.calls,
                  bag |-> res.bag,
                  lookup |-> (res.calls = 2 /\ r1.kind = "object" /\ r2.kind = "object"),
                  wasListed |-> (ip \in SelfBlacklistIPs(s) \cup scorers[s].added)]
    /\ UNCHANGED <<BLACKLIST, scorers, builderVars>>

\* s.add_to_blacklist(reason, ip): appends to the list in self.BLACKLIST
add_to_blacklist(reason, ip) ==
    IF reason \notin DOMAIN BLACKLIST
    THEN [r \in DOMAIN BLACKLIST \cup {reason} |->
             IF r = reason THEN <<ip>> ELSE BLACKLIST[r]]
    ELSE [BLACKLIST EXCEPT ![reason] = Append(@, ip)]

ReasonSeq == <<"Manual", "Suspicious Activity", "Spam">>

AddToBlacklist ==
    /\ \E s \in DOMAIN scorers, reason \in Reasons, ip \in IPs :
          /\ SumSeq([i \in 1..Len(ReasonSeq) |->
                        IF ReasonSeq[i] \in DOMAIN BLACKLIST
                        THEN Len(BLACKLIST[ReasonSeq[i]]) ELSE 0]) < MaxBlacklist
          /\ BLACKLIST' = add_to_blacklist(reason, ip)
          /\ scorers' = [scorers EXCEPT ![s].added = @ \cup {ip}]
          /\ lastScore' = [NoCall EXCEPT !.op = "add_to_blacklist", !.scorer = s, !.ip = ip]
    /\ UNCHANGED builderVars

ScorerInit ==
    /\ BLACKLIST = BLACKLIST0
    /\ scorers = EmptyDict
    /\ lastScore = NoCall

ScorerNext == Construct \/ GetReputation \/ AddToBlacklist

----------------------------------------------------------------------------
(* PointRule and PointRuleBuilder *)

VALID_ATTRIBUTES ==
    { "country", "country_code", "city", "continent", "continent_code",
      "region", "region_code", "latitude", "longitude", "is_eu",
      "postal", "calling_code", "capital", "borders", "country_flag",
      "asn", "org", "isp", "domain", "timezone_id", "timezone_abbr",
      "timezone_is_dst", "timezone_offset", "timezone_utc", "current_time" }

\* the names of the PointRuleBuilder objects of the model
Builders == {"b1", "b2"}
BuilderSeq == <<"b1", "b2">>

\* the arguments the callers of the model use
Attributes == {"country", "isp", "bogus"}
Values == {"US", "UK"}
PointArgs == {-1, 0, 1}
Groups == {"g1", "g2"}
Operations == {"double_points", "decrement_points"}

\* PointRule.__init__: no check of attribute or points
PointRule(attribute, value, points) ==
    [attribute |-> attribute, value |-> value, points |-> points]

\* PointRuleBuilder.__init__: rules and rule_groups only; current_attribute
\* and current_values do not exist yet (hasFocus = FALSE)
NewBuilder ==
    [rules |-> <<>>, rule_groups |-> <<>>, hasFocus |-> FALSE,
     current_attribute |-> None, current_values |-> <<>>]

validate_attribute_name(attribute_name) ==
    attribute_name \in VALID_ATTRIBUTES

\* A call works on st = [heap, b, raised, printed]: the PointRule objects, the
\* builder (self), the exception that left the call ("" if none) and the
\* messages it printed.
Start(h, b) == [heap |-> h, b |-> b, raised |-> "", printed |-> {}]

\* for_attribute without "self.current_values = []"
for_attribute_keeps_values(st, attribute) ==
    IF validate_attribute_name(attribute)
    THEN [st EXCEPT !.b.hasFocus = TRUE, !.b.current_attribute = attribute]
    ELSE [st EXCEPT !.printed = @ \cup {"not a valid attribute"}]

for_attribute(st, attribute) ==
    IF validate_attribute_name(attribute)
    THEN [st EXCEPT !.b.hasFocus = TRUE,
                    !.b.current_attribute = attribute,
                    !.b.current_values = <<>>]
    ELSE [st EXCEPT !.printed = @ \cup {"not a valid attribute"}]

\* with_value that starts a list of values when there is none
with_value_starts_list(st, values) ==
    IF ~st.b.hasFocus
    THEN [st EXCEPT !.b.hasFocus = TRUE, !.b.current_values = values]
    ELSE [st EXCEPT !.b.current_values = @ \o values]

\* self.current_values.extend(values): AttributeError when no for_attribute
\* has ever set current_values
with_value(st, values) ==
    IF ~st.b.hasFocus
    THEN [st EXCEPT !.raised = "AttributeError"]
    ELSE [st EXCEPT !.b.current_values = @ \o values]

\* with_points without the check of points
with_points_unchecked(st, points) ==
    IF ~st.b.hasFocus
    THEN [st EXCEPT !.raised = "AttributeError"]
    ELSE LET n == Len(st.b.current_values)
             new == [i \in 1..n |->
                        PointRule(st.b.current_attribute, st.b.current_values[i], points)]
             ids == [i \in 1..n |-> Len(st.heap) + i]
         IN  [st EXCEPT !.heap = @ \o new, !.b.rules = @ \o ids]

\* with_points that starts the master list anew
with_points_replaces(st, points) ==
    IF points < 0
    THEN [st EXCEPT !.printed = @ \cup {"Points must be a non-negative integer."}]
    ELSE IF ~st.b.hasFocus
    THEN [st EXCEPT !.raised = "AttributeError"]
    ELSE LET n == Len(st.b.current_values)
             new == [i \in 1..n |->
                        PointRule(st.b.current_attribute, st.b.current_values[i], points)]
             ids == [i \in 1..n |-> Len(st.heap) + i]
         IN  [st EXCEPT !.heap = @ \o new, !.b.rules = ids]

\* the ValueError is caught and printed; the AttributeError of a builder
\* without current_values is not caught; current_values is not cleared
with_points(st, points) ==
    IF points < 0
    THEN [st EXCEPT !.printed = @ \cup {"Points must be a non-negative integer."}]
    ELSE IF ~st.b.hasFocus
    THEN [st EXCEPT !.raised = "AttributeError"]
    ELSE LET n == Len(st.b.current_values)
             new == [i \in 1..n |->
                        PointRule(st.b.current_attribute, st.b.current_values[i], points)]
             ids == [i \in 1..n |-> Len(st.heap) + i]
         IN  [st EXCEPT !.heap = @ \o new, !.b.rules = @ \o ids]

\* self.for_attribute(attribute).with_value(value).with_points(points):
\* an exception ends the chain
for_attribute_with_value_with_points(st, attribute, value, points) ==
    LET s1 == for_attribute(st, attribute)
        s2 == with_value(s1, <<value>>)
    IN  IF s2.raised # "" THEN s2 ELSE with_points(s2, points)

\* build(): the list of rules, read through the references
build(h, b) == [i \in 1..Len(b.rules) |-> h[b.rules[i]]]

\* clone_rule that appends the last rule, whatever the index
clone_rule_appends_last(b, index) ==
    IF 0 <= index /\ index < Len(b.rules)
    THEN [ok |-> TRUE,
          builder |-> [NewBuilder EXCEPT !.rules = Append(b.rules, b.rules[Len(b.rules)])]]
    ELSE [ok |-> FALSE, builder |-> NewBuilder]

\* clone_rule that hands the groups of the original to the new builder
clone_rule_copies_groups(b, index) ==
    IF 0 <= index /\ index < Len(b.rules)
    THEN [ok |-> TRUE,
          builder |-> [NewBuilder EXCEPT !.rules = Append(b.rules, b.rules[index + 1]),
                                         !.rule_groups = b.rule_groups]]
    ELSE [ok |-> FALSE, builder |-> NewBuilder]

\* clone_rule(index), index counted from 0: a new builder whose list is a
\* copy of the list of references, with the reference at index appended
\* again; None (no builder) for an index out of range
clone_rule(b, index) ==
    IF 0 <= index /\ index < Len(b.rules)
    THEN [ok |-> TRUE,
          builder |-> [NewBuilder EXCEPT !.rules = Append(b.rules, b.rules[index + 1])]]
    ELSE [ok |-> FALSE, builder |-> NewBuilder]

GroupNames(b) == {b.rule_groups[i].name : i \in DOMAIN b.rule_groups}
GroupIndex(b, group_name) ==
    CHOOSE i \in DOMAIN b.rule_groups : b.rule_groups[i].name = group_name

\* add_rule_to_group that puts the rule into the master list as well
add_rule_to_group_and_master(b, group_name, rule) ==
    LET b1 == IF group_name \notin GroupNames(b)
              THEN [b EXCEPT !.rule_groups = Append(@, [name |-> group_name, rules |-> <<>>])]
              ELSE b
    IN  [b1 EXCEPT !.rule_groups[GroupIndex(b1, group_name)].rules = Append(@, rule),
                   !.rules = Append(@, rule)]

\* add_rule_to_group(group_name, rule): rule is a reference
add_rule_to_group(b, group_name, rule) ==
    LET b1 == IF group_name \notin GroupNames(b)
              THEN [b EXCEPT !.rule_groups = Append(@, [name |-> group_name, rules |-> <<>>])]
              ELSE b
    IN  [b1 EXCEPT !.rule_groups[GroupIndex(b1, group_name)].rules = Append(@, rule)]

\* the operations callers pass to apply_operation_to_group
Operation(op, rule) ==
    IF op = "double_points" THEN [rule EXCEPT !.points = @ * 2]
    ELSE [rule EXCEPT !.points = @ - 1]

\* the loop applying the operation to copies of the rules of the group
ApplyLoopOnCopies(h, refs, i, op) == h

\* the loop of apply_operation_to_group over the references of the group
RECURSIVE ApplyLoop(_, _, _, _)
ApplyLoop(h, refs, i, op) ==
    IF i > Len(refs) THEN h
    ELSE ApplyLoop([h EXCEPT ![refs[i]] = Operation(op, @)], refs, i + 1, op)

apply_operation_to_group(st, group_name, op) ==
    IF group_name \in GroupNames(st.b)
    THEN [st EXCEPT !.heap =
             ApplyLoop(@, st.b.rule_groups[GroupIndex(st.b, group_name)].rules, 1, op)]
    ELSE [st EXCEPT !.printed = @ \cup {"Rule group not found."}]

----------------------------------------------------------------------------
(* JSON persistence.  A Python dict is a sequence of [key, val] in insertion *)
(* order; the file holds the text json.dump wrote.                           *)

DictHas(d, k) == \E i \in DOMAIN d : d[i].key = k
DictGet(d, k) == d[CHOOSE i \in DOMAIN d : d[i].key = k].val

\* d[k] = v: a key already there keeps its place
DictSet(d, k, v) ==
    IF DictHas(d, k)
    THEN [i \in DOMAIN d |-> IF d[i].key = k THEN [key |-> k, val |-> v] ELSE d[i]]
    ELSE Append(d, [key |-> k, val |-> v])

\* the references save_to_json visits: self.rules, then every group of
\* self.rule_groups.values() in insertion order
RECURSIVE GroupRefs(_, _)
GroupRefs(groups, i) ==
    IF i > Len(groups) THEN <<>> ELSE groups[i].rules \o GroupRefs(groups, i + 1)

\* data[rule.attribute][rule.value] = rule.points, data a defaultdict(dict)
RECURSIVE FlattenLoop(_, _, _, _)
FlattenLoop(data, h, refs, i) ==
    IF i > Len(refs) THEN data
    ELSE LET rule == h[refs[i]]
             inner == IF DictHas(data, rule.attribute)
                      THEN DictGet(data, rule.attribute) ELSE <<>>
         IN  FlattenLoop(DictSet(data, rule.attribute,
                                 DictSet(inner, rule.value, rule.points)),
                         h, refs, i + 1)

\* json.dump writes a key that is None as "null"
JsonKey(k) == IF k = None THEN "null" ELSE k

json_dump(data) ==
    [i \in DOMAIN data |->
        [key |-> JsonKey(data[i].key),
         val |-> [j \in DOMAIN data[i].val |->
                    [key |-> JsonKey(data[i].val[j].key), val |-> data[i].val[j].val]]]]

\* json.load: of two members with the same name the later value wins
RECURSIVE ParseObject(_, _, _)
ParseObject(d, text, i) ==
    IF i > Len(text) THEN d
    ELSE ParseObject(DictSet(d, text[i].key, text[i].val), text, i + 1)

json_load(text) ==
    LET outer == ParseObject(<<>>, text, 1)
    IN  [i \in DOMAIN outer |->
            [key |-> outer[i].key, val |-> ParseObject(<<>>, outer[i].val, 1)]]

NoFile == [exists |-> FALSE, text |-> <<>>]

\* save_to_json visiting the groups before self.rules
flatten_groups_first(h, b) ==
    FlattenLoop(FlattenLoop(<<>>, h, GroupRefs(b.rule_groups, 1), 1), h, b.rules, 1)

\* the dict data of save_to_json: the rules of self.rules, then of the groups
flatten(h, b) ==
    FlattenLoop(FlattenLoop(<<>>, h, b.rules, 1), h, GroupRefs(b.rule_groups, 1), 1)

\* save_to_json: the text written to the file
save_to_json(h, b) ==
    [exists |-> TRUE, text |-> json_dump(flatten(h, b))]

\* the (attribute, value, points) of data.items() x value_points.items(), in order
RECURSIVE Triples(_, _)
Triples(data, i) ==
    IF i > Len(data) THEN <<>>
    ELSE [j \in DOMAIN data[i].val |->
             [attribute |-> data[i].key, value |-> data[i].val[j].key,
              points |-> data[i].val[j].val]]
         \o Triples(data, i + 1)

\* the loop of load_from_json: an exception of the chain ends the loop and
\* is printed by "except Exception"
RECURSIVE LoadLoop(_, _, _)
LoadLoop(st, triples, i) ==
    IF i > Len(triples) THEN st
    ELSE LET s1 == for_attribute_with_value_with_points(
                       st, triples[i].attribute, triples[i].value, triples[i].points)
         IN  IF s1.raised # ""
             THEN [s1 EXCEPT !.raised = "", !.printed = @ \cup {"Error: " \o s1.raised}]
             ELSE LoadLoop(s1, triples, i + 1)

load_from_json(st, f) ==
    IF ~f.exists
    THEN [st EXCEPT !.printed = @ \cup {"File not found."}]
    ELSE LoadLoop(st, Triples(json_load(f.text), 1), 1)

----------------------------------------------------------------------------------------------------------------------------------------
(* The calls on the builders.  Every action takes the sets its arguments   *)
(* are drawn from.                                                          *)

NoOp ==
    [op |-> "none", b |-> "", attribute |-> "", value |-> "", points |-> 0,
     index |-> 0, group |-> "", operation |-> "", rule |-> 0,
     raised |-> "", printed |-> {}, ret |-> ""]

\* the references a builder holds: its master list and its groups
Refs(b) == b.rules \o GroupRefs(b.rule_groups, 1)

\* the size of the model: the PointRule objects, the references to them in
\* all lists together, the pending values, the range of the points
Bounded(h, bs) ==
    /\ Len(h) <= MaxHeap
    /\ \A i \in DOMAIN h : h[i].points <= MaxPoints /\ h[i].points >= -MaxPoints
    /\ SumSeq([i \in 1..Len(BuilderSeq) |->
                  IF BuilderSeq[i] \in DOMAIN bs THEN Len(Refs(bs[BuilderSeq[i]])) ELSE 0])
          <= MaxRefs
    /\ \A b \in DOMAIN bs : Len(bs[b].current_values) <= MaxPending

\* the state a call on builder b leaves, and the record of the call
Leave(b, st, call) ==
    /\ heap' = st.heap
    /\ builders' = [builders EXCEPT ![b] = st.b]
    /\ Bounded(heap', builders')
    /\ last' = [call EXCEPT !.b = b, !.raised = st.raised, !.printed = st.printed]

\* a builder not there yet becomes builder c
WithBuilder(c, builder) ==
    [x \in DOMAIN builders \cup {c} |-> IF x = c THEN builder ELSE builders[x]]

\* PointRuleBuilder()
NewBuilderCall ==
    /\ \E c \in Builders \ DOMAIN builders :
          /\ builders' = WithBuilder(c, NewBuilder)
          /\ last' = [NoOp EXCEPT !.op = "__init__", !.b = c]
    /\ UNCHANGED <<heap, file, scorerVars>>

ForAttribute(As) ==
    /\ \E b \in DOMAIN builders, a \in As :
          Leave(b, for_attribute(Start(heap, builders[b]), a),
                [NoOp EXCEPT !.op = "for_attribute", !.attribute = a])
    /\ UNCHANGED <<file, scorerVars>>

WithValue(Vs) ==
    /\ \E b \in DOMAIN builders, v \in Vs :
          Leave(b, with_value(Start(heap, builders[b]), <<v>>),
                [NoOp EXCEPT !.op = "with_value", !.value = v])
    /\ UNCHANGED <<file, scorerVars>>

WithPoints(Ps) ==
    /\ \E b \in DOMAIN builders, p \in Ps :
          Leave(b, with_points(Start(heap, builders[b]), p),
                [NoOp EXCEPT !.op = "with_points", !.points = p])
    /\ UNCHANGED <<file, scorerVars>>

\* b.for_attribute(a).with_value(v).with_points(p) in one statement
Chain(As, Vs, Ps) ==
    /\ \E b \in DOMAIN builders, a \in As, v \in Vs, p \in Ps :
          Leave(b, for_attribute_with_value_with_points(Start(heap, builders[b]), a, v, p),
                [NoOp EXCEPT !.op = "chain", !.attribute = a, !.value = v, !.points = p])
    /\ UNCHANGED <<file, scorerVars>>

\* c = b.clone_rule(index)
CloneRule ==
    /\ \E b \in DOMAIN builders :
       \E index \in -1..Len(builders[b].rules) :
          LET res == clone_rule(builders[b], index)
          IN  IF res.ok
              THEN \E c \in Builders \ DOMAIN builders :
                      /\ builders' = WithBuilder(c, res.builder)
                      /\ Bounded(heap, builders')
                      /\ last' = [NoOp EXCEPT !.op = "clone_rule", !.b = b,
                                              !.index = index, !.ret = c]
              ELSE /\ builders' = builders
                   /\ last' = [NoOp EXCEPT !.op = "clone_rule", !.b = b, !.index = index,
                                           !.printed = {"Invalid rule index."}]
    /\ UNCHANGED <<heap, file, scorerVars>>

\* b.add_rule_to_group(g, rule) with a PointRule the caller holds: one that
\* some build() returned or that was put into a group before
AddRuleToGroup(Gs) ==
    /\ \E b \in DOMAIN builders, g \in Gs, rule \in DOMAIN heap :
          /\ builders' = [builders EXCEPT ![b] = add_rule_to_group(@, g, rule)]
          /\ Bounded(heap, builders')
          /\ last' = [NoOp EXCEPT !.op = "add_rule_to_group", !.b = b, !.group = g,
                                  !.rule = rule]
    /\ UNCHANGED <<heap, file, scorerVars>>

\* b.add_rule_to_group(g, PointRule(a, v, p)) with a PointRule made for it
AddNewRuleToGroup(Gs, Rs) ==
    /\ \E b \in DOMAIN builders, g \in Gs, r \in Rs :
          /\ heap' = Append(heap, PointRule(r[1], r[2], r[3]))
          /\ builders' = [builders EXCEPT ![b] = add_rule_to_group(@, g, Len(heap) + 1)]
          /\ Bounded(heap', builders')
          /\ last' = [NoOp EXCEPT !.op = "add_rule_to_group", !.b = b, !.group = g,
                                  !.rule = Len(heap) + 1, !.attribute = r[1],
                                  !.value = r[2], !.points = r[3]]
    /\ UNCHANGED <<file, scorerVars>>

ApplyOperationToGroup(Gs, Os) ==
    /\ \E b \in DOMAIN builders, g \in Gs, op \in Os :
          Leave(b, apply_operation_to_group(Start(heap, builders[b]), g, op),
                [NoOp EXCEPT !.op = "apply_operation_to_group", !.group = g,
                             !.operation = op])
    /\ UNCHANGED <<file, scorerVars>>

SaveToJson ==
    /\ \E b \in DOMAIN builders :
          /\ file' = save_to_json(heap, builders[b])
          /\ last' = [NoOp EXCEPT !.op = "save_to_json", !.b = b]
    /\ UNCHANGED <<heap, builders, scorerVars>>

\* the files somebody else wrote
ExternalFiles ==
    { [exists |-> TRUE,
       text |-> << [key |-> "country", val |-> << [key |-> "US", val |-> 1] >>],
                   [key |-> "bogus", val |-> << [key |-> "x", val |-> 2] >>] >>],
      [exists |-> TRUE,
       text |-> << [key |-> "bogus", val |-> << [key |-> "x", val |-> 2] >>],
                   [key |-> "country", val |-> << [key |-> "US", val |-> 1] >>] >>] }

\* a file with one recognized attribute
PlainFiles ==
    { [exists |-> TRUE,
       text |-> << [key |-> "country", val |-> << [key |-> "US", val |-> 1] >>] >>] }

\* the file is replaced from outside
WriteFileOf(Fs) ==
    /\ \E f \in Fs : file' = f
    /\ last' = [NoOp EXCEPT !.op = "write_file"]
    /\ UNCHANGED <<heap, builders, scorerVars>>

WriteFile == WriteFileOf(ExternalFiles)

LoadFromJson ==
    /\ \E b \in DOMAIN builders :
          Leave(b, load_from_json(Start(heap, builders[b]), file),
                [NoOp EXCEPT !.op = "load_from_json"])
    /\ UNCHANGED <<file, scorerVars>>

BuilderInit ==
    /\ heap = <<>>
    /\ builders = [b \in {"b1"} |-> NewBuilder]
    /\ file = NoFile
    /\ last = NoOp

----------------------------------------------------------------------------
(* Specifications *)

Init == ScorerInit /\ BuilderInit

\* the scorer alone, the builders untouched
SpecScorer == Init /\ [][ScorerNext]_vars

\* the fluent calls
FluentNext ==
    \/ ForAttribute(Attributes) \/ WithValue(Values) \/ WithPoints(PointArgs)
    \/ Chain(Attributes, Values, PointArgs)

SpecFluent == Init /\ [][FluentNext]_vars

\* cloning and the groups
GroupNext ==
    \/ Chain({"country"}, Values, {1})
    \/ CloneRule
    \/ AddRuleToGroup({"g1"})
    \/ AddNewRuleToGroup({"g1"}, {<<"country", "US", 1>>})
    \/ ApplyOperationToGroup({"g1"}, {"double_points"})

SpecGroup == Init /\ [][GroupNext]_vars

\* saving and loading
NewRuleArgs ==
    { <<"country", "US", 2>>, <<"bogus", "US", 2>>, <<"country", None, 2>>,
      <<"country", "US", -1>> }

JsonNext ==
    \/ NewBuilderCall
    \/ Chain({"country"}, {"US"}, {0, 1})
    \/ AddNewRuleToGroup({"g1", "g2"}, NewRuleArgs)
    \/ SaveToJson
    \/ WriteFile
    \/ LoadFromJson

SpecJson == Init /\ [][JsonNext]_vars

\* every kind of call on a builder: the fluent calls, loading, saving,
\* cloning, a new rule put into a group, an operation applied to the group
BuilderNext ==
    \/ ForAttribute({"country", "bogus"}) \/ WithValue({"US"}) \/ WithPoints({-1, 1})
    \/ WriteFileOf(PlainFiles)
    \/ LoadFromJson
    \/ SaveToJson
    \/ CloneRule
    \/ AddNewRuleToGroup({"g1"}, {<<"country", "US", 1>>})
    \/ ApplyOperationToGroup({"g1"}, {"double_points"})

SpecBuilder == Init /\ [][BuilderNext]_vars

\* the same calls with rules of the master list put into the group and an
\* operation that lowers the points
MutateNext ==
    \/ ForAttribute({"country", "bogus"}) \/ WithValue({"US"}) \/ WithPoints({-1, 0})
    \/ WriteFileOf(PlainFiles)
    \/ LoadFromJson
    \/ CloneRule
    \/ AddRuleToGroup({"g1"})
    \/ ApplyOperationToGroup({"g1"}, {"decrement_points"})

SpecMutate == Init /\ [][MutateNext]_vars

\* everything
Next ==
    \/ ScorerNext
    \/ NewBuilderCall
    \/ ForAttribute(Attributes) \/ WithValue(Values \cup {None}) \/ WithPoints(PointArgs)
    \/ Chain(Attributes, Values \cup {None}, PointArgs)
    \/ CloneRule
    \/ AddRuleToGroup(Groups)
    \/ AddNewRuleToGroup(Groups, Attributes \X (Values \cup {None}) \X PointArgs)
    \/ ApplyOperationToGroup(Groups, Operations)
    \/ SaveToJson
    \/ WriteFile
    \/ LoadFromJson

Spec == Init /\ [][Next]_vars

----------------------------------------------------------------------------
(* The claims about the scorer, under SpecScorer *)

\* C1: an IP that is under some reason of the scorer's own blacklist (the one
\* passed to the constructor, the copy of the default, or an IP added through
\* this scorer's add_to_blacklist) scores 0, and the geolocation provider is
\* not called.
C1_BlacklistedScoresZero ==
    (lastScore.op = "get_reputation" /\ lastScore.wasListed)
        => (lastScore.raised = "" /\ lastScore.value = 0 /\ lastScore.calls = 0)

\* what the rule table gives for a bag: for every attribute of the table the
\* points of the bag's value, 0 when the bag has no such attribute or the
\* value is no key
Contribution(entry, bag) ==
    IF entry.attr \in DOMAIN bag /\ bag[entry.attr] \in DOMAIN entry.table
    THEN entry.table[bag[entry.attr]] ELSE 0

ExpectedScore(rules, bag) ==
    SumSeq([i \in 1..Len(rules) |-> Contribution(rules[i], bag)])

\* C2: for an IP that is not blacklisted and whose lookup succeeds, the score
\* is the sum over the attributes of the rule table of the points of the
\* bag's value, 0 for an attribute the bag lacks or a value that is no key.
C2_ScoreIsSum ==
    (lastScore.op = "get_reputation" /\ ~lastScore.wasListed /\ lastScore.lookup)
        => /\ lastScore.raised = ""
           /\ lastScore.value =
                 ExpectedScore(scorers[lastScore.scorer].point_rules, lastScore.bag)

----------------------------------------------------------------------------
(* The claims about the fluent calls, under SpecFluent *)

\* C3: for_attribute(a).with_value(v).with_points(p) with a recognized
\* attribute a and p >= 0 appends exactly the one rule (a, v, p) to the
\* master list and leaves the entries before it as they were.
C3_ChainAppendsOneRule ==
    [][ (last'.op = "chain" /\ validate_attribute_name(last'.attribute)
            /\ last'.points >= 0)
        => /\ last'.raised = ""
           /\ build(heap', builders'[last'.b]) =
                 Append(build(heap, builders[last'.b]),
                        PointRule(last'.attribute, last'.value, last'.points)) ]_vars

C3_Witness ==
    /\ last.op = "chain" /\ last.attribute = "isp" /\ last.points = 0
    /\ Len(builders[last.b].rules) = MaxHeap
    /\ heap[builders[last.b].rules[1]].attribute = "country"

\* C4: for_attribute(x) with an unrecognized x followed by with_value(v) and
\* with_points(p) adds no rule: the master list is the same after the chain
\* as before it.
C4_UnknownAttributeAddsNothing ==
    [][ (last'.op = "chain" /\ ~validate_attribute_name(last'.attribute))
        => build(heap', builders'[last'.b]) = build(heap, builders[last'.b]) ]_vars

\* C5, as stated: with_points(p) with p < 0 adds no rule and fails with an
\* error that reaches the caller.
C5_NegativePointsRaises ==
    [][ (last'.op = "with_points" /\ last'.points < 0)
        => /\ build(heap', builders'[last'.b]) = build(heap, builders[last'.b])
           /\ last'.raised # "" ]_vars

\* C5, amended: with_points(p) with p < 0 adds no rule, whatever the pending
\* values are; the error is caught inside with_points and printed, and the
\* call returns the builder without raising.
C5_NegativePointsAddsNothing ==
    [][ (last'.op = "with_points" /\ last'.points < 0)
        => /\ build(heap', builders'[last'.b]) = build(heap, builders[last'.b])
           /\ heap' = heap
           /\ last'.raised = ""
           /\ "Points must be a non-negative integer." \in last'.printed ]_vars

C5_Witness ==
    /\ last.op = "with_points" /\ last.points < 0
    /\ Len(builders[last.b].current_values) = 2
    /\ Len(builders[last.b].rules) >= 1

----------------------------------------------------------------------------
(* The claims about saving and loading, under SpecJson *)

\* a table attribute -> value -> points as the set of its entries
TableEntries(data) ==
    UNION { { <<data[i].key, data[i].val[j].key, data[i].val[j].val>> :
                 j \in DOMAIN data[i].val } : i \in DOMAIN data }

\* every rule of the builder, in the master list or a group, has a value
ExactOnly(h, b) ==
    \A i \in Range(b.rules \o GroupRefs(b.rule_groups, 1)) : h[i].value # None

\* C6: when the file is what save_to_json writes for a builder that holds
\* exact-value rules only, load_from_json of it into a fresh builder leaves
\* that builder with the same flattened table attribute -> value -> points.
C6_RoundTrip ==
    [][ \A s \in DOMAIN builders :
          ( /\ last'.op = "load_from_json"
            /\ s # last'.b
            /\ builders[last'.b] = NewBuilder
            /\ ExactOnly(heap, builders[s])
            /\ file = save_to_json(heap, builders[s]) )
          => TableEntries(flatten(heap', builders'[last'.b]))
                = TableEntries(flatten(heap, builders[s])) ]_vars

FileAttributes(f) == {f.text[i].key : i \in DOMAIN f.text}

\* the rules a load adds to a builder: the entries of its master list after
\* those it had
Added(h0, b0, h1, b1) ==
    SubSeq(build(h1, b1), Len(b0.rules) + 1, Len(b1.rules))

RecognizedOnly(t) == validate_attribute_name(t.attribute)

\* C7: load_from_json of a file with recognized and unrecognized attributes
\* (points >= 0) adds, in the order of the file, one rule for every entry of
\* a recognized attribute and nothing else, and keeps the rules it had.
C7_LoadSkipsUnknownAttributes ==
    [][ ( /\ last'.op = "load_from_json"
          /\ file.exists
          /\ \E a \in FileAttributes(file) : validate_attribute_name(a)
          /\ \E a \in FileAttributes(file) : ~validate_attribute_name(a)
          /\ \A t \in Range(Triples(json_load(file.text), 1)) : t.points >= 0 )
        => /\ SubSeq(build(heap', builders'[last'.b]), 1, Len(builders[last'.b].rules))
                 = build(heap, builders[last'.b])
           /\ Added(heap, builders[last'.b], heap', builders'[last'.b])
                 = SelectSeq(Triples(json_load(file.text), 1), RecognizedOnly) ]_vars

----------------------------------------------------------------------------
(* The claims about cloning and the groups, under SpecGroup *)

\* C8: clone_rule(i) with 0 <= i < N on a builder with N rules returns a new
\* builder with N + 1 rules, the first N those of the original in order and
\* the last one equal to entry i; the original is as it was.
C8_CloneAppendsEntry ==
    [][ ( /\ last'.op = "clone_rule"
          /\ 0 <= last'.index /\ last'.index < Len(builders[last'.b].rules) )
        => /\ last'.ret \in DOMAIN builders' \ DOMAIN builders
           /\ build(heap', builders'[last'.ret])
                 = Append(build(heap, builders[last'.b]),
                          build(heap, builders[last'.b])[last'.index + 1])
           /\ builders'[last'.b] = builders[last'.b]
           /\ build(heap', builders'[last'.b]) = build(heap, builders[last'.b]) ]_vars

C8_Witness ==
    /\ last.op = "clone_rule" /\ last.ret \in DOMAIN builders /\ last.index = 0
    /\ Len(builders[last.b].rules) = 2
    /\ heap[builders[last.b].rules[1]] # heap[builders[last.b].rules[2]]
    /\ Len(builders[last.ret].rules) = 3

\* C9: once there is a clone, a call on one of the two builders (a rule
\* appended, a rule put into a group, an operation applied to a group) never
\* changes the (attribute, value, points) that build() of the other returns.
C9_CloneSharesNothing ==
    [][ \A x \in DOMAIN builders :
          ( /\ last'.op \in {"chain", "add_rule_to_group", "apply_operation_to_group"}
            /\ last'.b # x )
          => build(heap', builders'[x]) = build(heap, builders[x]) ]_vars

\* how often the group refers to the rule
RECURSIVE Count(_, _)
Count(refs, id) ==
    IF refs = <<>> THEN 0
    ELSE (IF Head(refs) = id THEN 1 ELSE 0) + Count(Tail(refs), id)

\* the rule after n applications of the operation
RECURSIVE Times(_, _, _)
Times(op, rule, n) == IF n = 0 THEN rule ELSE Times(op, Operation(op, rule), n - 1)

GroupRules(b, g) == b.rule_groups[GroupIndex(b, g)].rules

\* C10: apply_operation_to_group(g, op) with an operation that changes the
\* points shows through the master list: a rule of the master list that g
\* refers to has the points the operation gave it (once for every reference
\* g holds), a rule g does not refer to keeps its points.
C10_GroupMutationShowsInMaster ==
    [][ ( /\ last'.op = "apply_operation_to_group"
          /\ last'.group \in GroupNames(builders[last'.b]) )
        => LET b0 == builders[last'.b]
               refs == GroupRules(b0, last'.group)
           IN  /\ builders'[last'.b] = b0
               /\ \A k \in DOMAIN b0.rules :
                     build(heap', builders'[last'.b])[k]
                        = Times(last'.operation, heap[b0.rules[k]],
                                Count(refs, b0.rules[k])) ]_vars

C10_Witness ==
    /\ last.op = "apply_operation_to_group"
    /\ last.group \in GroupNames(builders[last.b])
    /\ \E k \in DOMAIN builders[last.b].rules :
          /\ Count(GroupRules(builders[last.b], last.group), builders[last.b].rules[k]) = 2
          /\ heap[builders[last.b].rules[k]].points = 4
    /\ \E k \in DOMAIN builders[last.b].rules :
          builders[last.b].rules[k] \notin Range(GroupRules(builders[last.b], last.group))

----------------------------------------------------------------------------
(* Further claims about the scorer, under SpecScorer *)

\* C11: add_to_blacklist(reason, ip) on one scorer never changes what
\* check_in_blacklist answers on another, separately constructed scorer.
C11_BlacklistPerInstance ==
    [][ lastScore'.op = "add_to_blacklist"
        => \A x \in DOMAIN scorers \ {lastScore'.scorer} : \A ip \in IPs :
              check_in_blacklist(x, ip)' = check_in_blacklist(x, ip) ]_vars

\* C14: get_reputation never fails over an attribute of the rule table that
\* the bag lacks: whenever the lookup succeeded, it returns an integer.
C14_ScoreNeverRaises ==
    (lastScore.op = "get_reputation" /\ lastScore.lookup)
        => (lastScore.raised = "" /\ lastScore.value \in Int)

----------------------------------------------------------------------------
(* Further claims about the fluent calls, under SpecFluent *)

\* C12: a with_points(q) that directly follows a with_points(p) that returned,
\* on the same builder with no with_value in between, adds no rule to the
\* master list.
C12_WithPointsClearsPending ==
    [][ ( /\ last.op = "with_points" /\ last.raised = ""
          /\ last'.op = "with_points" /\ last'.b = last.b )
        => build(heap', builders'[last'.b]) = build(heap, builders[last'.b]) ]_vars

\* C20: a successful for_attribute(a) empties the pending values: after it
\* the builder has the focus a and no pending value, and a with_points that
\* directly follows it on the same builder appends no rule.
C20_ForAttributeEmptiesPending ==
    [][ /\ (last'.op = "for_attribute" /\ validate_attribute_name(last'.attribute))
            => /\ builders'[last'.b].current_attribute = last'.attribute
               /\ builders'[last'.b].current_values = <<>>
        /\ ( /\ last.op = "for_attribute" /\ validate_attribute_name(last.attribute)
             /\ last'.op = "with_points" /\ last'.b = last.b )
            => build(heap', builders'[last'.b]) = build(heap, builders[last'.b]) ]_vars

C20_Witness ==
    /\ last.op = "with_points" /\ last.points >= 0 /\ last.raised = ""
    /\ builders[last.b].current_attribute = "isp"
    /\ builders[last.b].current_values = <<>>
    /\ Len(builders[last.b].rules) = 2
    /\ \A k \in DOMAIN builders[last.b].rules :
          heap[builders[last.b].rules[k]].attribute = "country"

----------------------------------------------------------------------------
(* Further claims about saving and loading, under SpecJson *)

\* the last position in refs of a rule with the (attribute, value) of refs[i]
IsLastOfPair(h, refs, i) ==
    \A j \in DOMAIN refs :
        (j > i) => ( h[refs[j]].attribute # h[refs[i]].attribute
                     \/ h[refs[j]].value # h[refs[i]].value )

\* the entries the file is to have: for every (attribute, value) of the
\* master list and the groups the points of its last rule, the value as
\* JSON renders it
LastWriteWins(h, b) ==
    LET refs == Refs(b)
    IN  { <<h[refs[i]].attribute, JsonKey(h[refs[i]].value), h[refs[i]].points>> :
             i \in {k \in DOMAIN refs : IsLastOfPair(h, refs, k)} }

\* C13: save_to_json writes, for every (attribute, value) pair of the master
\* list or of a group, the points of the last rule with that pair in the
\* order master list, then the groups in insertion order, then the order
\* within the group; it writes nothing else.
C13_SaveLastWriteWins ==
    [][ last'.op = "save_to_json"
        => /\ file'.exists
           /\ TableEntries(file'.text) = LastWriteWins(heap, builders[last'.b]) ]_vars

C13_Witness ==
    /\ last.op = "save_to_json"
    /\ Len(builders[last.b].rule_groups) = 2
    /\ builders[last.b].rule_groups[1].name = "g2"
    /\ builders[last.b].rule_groups[2].name = "g1"
    /\ heap[builders[last.b].rule_groups[1].rules[1]] = PointRule("country", "US", -1)
    /\ heap[builders[last.b].rule_groups[2].rules[1]] = PointRule("country", "US", 2)
    /\ file = [exists |-> TRUE,
               text |-> << [key |-> "country", val |-> << [key |-> "US", val |-> 2] >>] >>]

\* the rules of group g of builder b, none when b has no group g
RulesOfGroup(b, g) == IF g \in GroupNames(b) THEN GroupRules(b, g) ELSE <<>>

\* C16: add_rule_to_group(g, rule) appends rule to the end of group g, which
\* it creates when absent, and changes nothing else: the master list, every
\* other group, the other builders and the rules themselves are as before.
C16_AddRuleToGroupFrame ==
    [][ last'.op = "add_rule_to_group"
        => LET b0 == builders[last'.b]
               b1 == builders'[last'.b]
           IN  /\ GroupNames(b1) = GroupNames(b0) \cup {last'.group}
               /\ GroupRules(b1, last'.group)
                     = Append(RulesOfGroup(b0, last'.group), last'.rule)
               /\ \A g \in GroupNames(b0) \ {last'.group} :
                     GroupRules(b1, g) = GroupRules(b0, g)
               /\ b1.rules = b0.rules
               /\ \A x \in DOMAIN builders \ {last'.b} : builders'[x] = builders[x]
               /\ \A i \in DOMAIN heap : heap'[i] = heap[i] ]_vars

C16_Witness ==
    /\ last.op = "add_rule_to_group" /\ last.group = "g1"
    /\ Len(builders[last.b].rule_groups) = 2
    /\ builders[last.b].rule_groups[1] = [name |-> "g2", rules |-> <<1>>]
    /\ builders[last.b].rule_groups[2] = [name |-> "g1", rules |-> <<2>>]
    /\ heap[1] # heap[2]

\* C17: no PointRule with negative points exists after construction:
\* PointRule(attribute, value, points) with points < 0 fails.
C17_NoNegativeRule ==
    \A i \in DOMAIN heap : heap[i].points >= 0

----------------------------------------------------------------------------
(* The claims about every kind of call, under SpecBuilder *)

\* C15, as stated: with_value on a builder on which no for_attribute has
\* succeeded yet fails with NoFocusAttributeError and leaves the master list
\* and the groups as they were.
C15_NoFocusRaisesNoFocusError ==
    [][ (last'.op = "with_value" /\ ~builders[last'.b].hasFocus)
        => /\ last'.raised = "NoFocusAttributeError"
           /\ builders'[last'.b].rules = builders[last'.b].rules
           /\ builders'[last'.b].rule_groups = builders[last'.b].rule_groups
           /\ heap' = heap ]_vars

\* C15, amended: with_value on a builder on which no for_attribute has
\* succeeded yet fails with Python's AttributeError (the builder has no
\* current_values yet) and leaves the builder, its master list and its groups
\* as they were.
C15_NoFocusRaisesAttributeError ==
    [][ (last'.op = "with_value" /\ ~builders[last'.b].hasFocus)
        => /\ last'.raised = "AttributeError"
           /\ builders'[last'.b] = builders[last'.b]
           /\ heap' = heap ]_vars

C15_Witness ==
    /\ last.op = "with_value" /\ last.raised = "AttributeError"
    /\ ~builders[last.b].hasFocus
    /\ Len(builders[last.b].rules) >= 2
    /\ Len(builders[last.b].rule_groups) = 1

\* s is a prefix of t
IsPrefix(s, t) == Len(s) <= Len(t) /\ SubSeq(t, 1, Len(s)) = s

\* C19: no call removes a rule: in every step the master list of every
\* builder before the step is a prefix of its master list after the step,
\* the same PointRule objects in the same order.
C19_MasterListOnlyGrows ==
    [][ \A b \in DOMAIN builders :
          /\ b \in DOMAIN builders'
          /\ IsPrefix(builders[b].rules, builders'[b].rules) ]_vars

C19_Witness ==
    /\ last.op = "load_from_json"
    /\ \E c \in DOMAIN builders : c # last.b /\ Len(builders[c].rules) = 2
    /\ Len(builders[last.b].rules) = 2
    /\ builders[last.b].rules = <<1, 2>>

\* the entries save_to_json is to write for a master list alone
MasterOnly(h, b) == LastWriteWins(h, [b EXCEPT !.rule_groups = <<>>])

\* C21: the builder clone_rule returns has no groups, whatever groups the
\* original holds: apply_operation_to_group(g, op) on it, directly after the
\* clone and for a group g of the original, finds no group and changes no
\* rule, and save_to_json on it writes the rules of its master list only.
C21_CloneHasNoGroups ==
    [][ /\ (last'.op = "clone_rule" /\ last'.ret # "")
            => builders'[last'.ret].rule_groups = <<>>
        /\ ( /\ last.op = "clone_rule" /\ last.ret # ""
             /\ last'.op = "apply_operation_to_group" /\ last'.b = last.ret
             /\ last'.group \in GroupNames(builders[last.b]) )
            => /\ heap' = heap
               /\ builders' = builders
               /\ "Rule group not found." \in last'.printed
        /\ ( /\ last.op = "clone_rule" /\ last.ret # ""
             /\ last'.op = "save_to_json" /\ last'.b = last.ret )
            => /\ file'.exists
               /\ TableEntries(file'.text) = MasterOnly(heap, builders[last.ret]) ]_vars

C21_Witness ==
    /\ last.op = "apply_operation_to_group"
    /\ "Rule group not found." \in last.printed
    /\ last.b = "b2" /\ builders["b2"].rule_groups = <<>>
    /\ Len(builders["b2"].rules) = 2
    /\ last.group \in GroupNames(builders["b1"])
    /\ Len(GroupRules(builders["b1"], last.group)) >= 1

----------------------------------------------------------------------------
(* The claim about operations that lower the points, under SpecMutate *)

\* C18: whatever calls were made on the builders, every rule of a master
\* list has a recognized attribute and points >= 0.
C18_MasterRulesValid ==
    \A b \in DOMAIN builders : \A k \in DOMAIN builders[b].rules :
        /\ validate_attribute_name(heap[builders[b].rules[k]].attribute)
        /\ heap[builders[b].rules[k]].points >= 0

====
